---- MODULE Spec2Model ----
(***************************************************************************)
(* Cutout geometry engine of react-native-edge-loader: utils/buildPath.    *)
(*                                                                         *)
(* The repository carries three builds of utils/buildPath:                 *)
(*   part_003  bar/orbit builder with masks (buildNotchSpec,               *)
(*             buildIslandSpec), SCREEN_W captured at module load;         *)
(*   part_004  builder with local coordinates and buildNotchBarPath,       *)
(*             window width read at every call;                            *)
(*   part_002  orbit-only builder in absolute coordinates.                 *)
(* The variable `variant` says which of them is bundled.                   *)
(*                                                                         *)
(* Numbers.  Every length is an integer number of quarter-DIPs (U units    *)
(* per DIP): the inputs are whole DIPs, the code only halves them, and a   *)
(* quarter arc is (PI/2)*r, so all values are exact.  A perimeter is the   *)
(* real number q + pi*PI, kept as the record [q, pi].                      *)
(*                                                                         *)
(* Paths.  A path string is the sequence of its commands, each with the    *)
(* numbers the template literal prints; join(' ') is concatenation.        *)
(*                                                                         *)
(* Six specifications share the variables:                                 *)
(*   Spec      calls of buildPathSpec on every cutout and padding;         *)
(*   DashSpec  the animated stroke dash of the three EdgeLoaderViews;      *)
(*   ViewSpec  one mount of EdgeLoaderView (index.tsx) with its            *)
(*             useCutoutDetection hook: renders, effects, promises;        *)
(*   LiveSpec  that mount with no override and no unmount, with fairness;  *)
(*   AnimSpec  the progress animation of the three views;                  *)
(*   DetectSpec  calls of getCutouts() on every platform.                  *)
(***************************************************************************)
EXTENDS Integers, Sequences, FiniteSets, TLC

U == 2 * 2

\* ---------------------------------------------------------------- bounds
MaxPad   == 1      \* paddings -MaxPad..MaxPad DIP
PadDeep  == 41     \* one strongly negative padding, in DIP
MaxDim   == 2      \* widths/heights 0..MaxDim DIP
DimLarge == 48     \* one large width/height, in DIP
MaxRad   == 1      \* corner radii 0..MaxRad DIP
XFar     == 30     \* x in {0, XFar} DIP
YFar     == 11     \* y in {0, YFar} DIP
TSteps   == 4      \* progress and beamLength take the values k/TSteps
MaxLen   == 3      \* perimeters TSteps*1 .. TSteps*MaxLen dash units
MaxIter  == 2      \* loop iterations followed
MaxDetect == 2     \* getCutouts() calls followed
MaxNotify == 2     \* onDetected invocations followed
MaxFn    == 2      \* identities of the onDetected prop
MaxCell  == 2      \* native rects on a grid of 0 .. MaxCell cells of PxCell pixels

\* ------------------------------------------------------------- constants
BLEED      == 40 * U
PortraitW  == 360 * U
LandscapeW == 800 * U

WindowWidths == {PortraitW, LandscapeW}
Variants     == {"part_003", "part_004", "part_002"}
KnownTypes   == {"none", "punch_hole", "teardrop", "island", "notch"}
Types        == KnownTypes \cup {"pill"}
Fields       == {"x", "y", "width", "height", "radius"}

\* --------------------------------------------------------------- numbers
Half(n) == n \div 2
Min2(a, b) == IF a <= b THEN a ELSE b
Max2(a, b) == IF a >= b THEN a ELSE b
Min3(a, b, c) == Min2(a, Min2(b, c))
Abs(n) == IF n < 0 THEN -n ELSE n

\* the real number q + pi*PI
Real(q, pi) == [q |-> q, pi |-> pi]
\* q + pi*PI > 0.  355/113 is a convergent of PI from above and no fraction
\* with a denominator below 33215 lies between PI and 355/113.
Positive(v) ==
  IF v.pi = 0 THEN v.q > 0
  ELSE IF v.pi > 0 THEN 113 * v.q + 355 * v.pi > 0
  ELSE 113 * v.q + 355 * v.pi >= 0
Less(a, b) == Positive(Real(b.q - a.q, b.pi - a.pi))

\* ----------------------------------------------------------------- paths
M(x, y) == [op |-> "M", args |-> <<x, y>>]
L(x, y) == [op |-> "L", args |-> <<x, y>>]
A(rx, ry, rot, large, sweep, x, y) ==
  [op |-> "A", args |-> <<rx, ry, rot, large, sweep, x, y>>]
H(x) == [op |-> "H", args |-> <<x>>]
V(y) == [op |-> "V", args |-> <<y>>]
Z == [op |-> "Z", args |-> <<>>]

\* cutout.f ?? d
Nullish(cutout, f, d) == IF f \in DOMAIN cutout THEN cutout[f] ELSE d

NULL   == [kind |-> "null"]
NoCall == [kind |-> "nocall"]

\* ------------------------------------------------- primitive path builders
buildCirclePath(cx, cy, r) ==
  << M(cx + r, cy),
     A(r, r, 0, 1, 1, cx - r, cy),
     A(r, r, 0, 1, 1, cx + r, cy),
     Z >>

circlePerimeter(r) == Real(0, 2 * r)

\* mutant: the straight edges written with the H and V shorthands
buildRoundedRectPath_HV(x, y, w, h, r) ==
  LET safeR == Min3(r, Half(w), Half(h))
  IN << M(x + safeR, y),
        H(x + w - safeR),
        A(safeR, safeR, 0, 0, 1, x + w, y + safeR),
        V(y + h - safeR),
        A(safeR, safeR, 0, 0, 1, x + w - safeR, y + h),
        H(x + safeR),
        A(safeR, safeR, 0, 0, 1, x, y + h - safeR),
        V(y + safeR),
        A(safeR, safeR, 0, 0, 1, x + safeR, y),
        Z >>

buildRoundedRectPath(x, y, w, h, r) ==
  LET safeR == Min3(r, Half(w), Half(h))
  IN << M(x + safeR, y),
        L(x + w - safeR, y),
        A(safeR, safeR, 0, 0, 1, x + w, y + safeR),
        L(x + w, y + h - safeR),
        A(safeR, safeR, 0, 0, 1, x + w - safeR, y + h),
        L(x + safeR, y + h),
        A(safeR, safeR, 0, 0, 1, x, y + h - safeR),
        L(x, y + safeR),
        A(safeR, safeR, 0, 0, 1, x + safeR, y),
        Z >>

roundedRectPerimeter(w, h, r) ==
  LET safeR == Min3(r, Half(w), Half(h))
  IN Real(2 * (w - 2 * safeR + (h - 2 * safeR)), 2 * safeR)

\* ------------------------------------------------------ part_003: bar family
\* mutant: the bar rests at the bleed margin instead of at y = padding
buildNotchSpec_none_barAtBleed(padding, screenW) ==
  LET barY  == Half(BLEED)
      pathD == << M(0, barY), L(screenW, barY) >>
      maskD == << M(0, barY), L(screenW, barY), L(screenW, BLEED * 2),
                  L(0, BLEED * 2), Z >>
  IN [kind |-> "PathSpec",
      pathD |-> pathD,
      maskD |-> maskD,
      maskFillRule |-> "nonzero",
      perimeter |-> Real(screenW, 0),
      svgLeft |-> 0,
      svgTop |-> 0,
      svgWidth |-> screenW,
      svgHeight |-> BLEED * 2]

\* the 'none' branch of buildNotchSpec
buildNotchSpec_none(padding, screenW) ==
  LET barY  == padding
      pathD == << M(0, barY), L(screenW, barY) >>
      maskD == << M(0, barY), L(screenW, barY), L(screenW, BLEED * 2),
                  L(0, BLEED * 2), Z >>
  IN [kind |-> "PathSpec",
      pathD |-> pathD,
      maskD |-> maskD,
      maskFillRule |-> "nonzero",
      perimeter |-> Real(screenW, 0),
      svgLeft |-> 0,
      svgTop |-> 0,
      svgWidth |-> screenW,
      svgHeight |-> BLEED * 2]

\* mutant: the horizontal expansion subtracted instead of added
notchPerimeter_minus(screenW, bottomY, baseY, padW, w) ==
  Real(screenW + 2 * (bottomY - baseY) - (padW - w), 0)

\* the "approximate perimeter" of the notch detour
notchPerimeter(screenW, bottomY, baseY, padW, w) ==
  Real(screenW + 2 * (bottomY - baseY) + (padW - w), 0)

\* mutant: the mask closed along the bar instead of below the cutout
notchMask_closedAtTop(pathD, screenW, svgHeight) ==
  pathD \o << L(screenW, 0), L(0, 0), Z >>

\* the mask of the notch family: the path closed along the canvas bottom
notchMask(pathD, screenW, svgHeight) ==
  pathD \o << L(screenW, svgHeight), L(0, svgHeight), Z >>

buildNotchSpec(cutout, padding, screenW) ==
  IF cutout.type = "none" THEN buildNotchSpec_none(padding, screenW)
  ELSE
  LET x == Nullish(cutout, "x", Half(screenW - Nullish(cutout, "width", 0)))
      w == Nullish(cutout, "width", 0)
      h == Nullish(cutout, "height", 0)
      r == Nullish(cutout, "radius", 0)
      baseY == padding
      padX == x - padding
      padW == w + 2 * padding
      padH == h + padding
      cornerR == IF r > 0 THEN r + padding ELSE Min2(20 * U, Half(padH))
      leftX == Max2(0, padX)
      rightX == Min2(screenW, padX + padW)
      bottomY == padH
      safeLeftX == Min2(leftX, rightX)
      safeRightX == Max2(leftX, rightX)
      entry == IF safeLeftX > 0
               THEN << L(safeLeftX - cornerR, baseY),
                       A(cornerR, cornerR, 0, 0, 1, safeLeftX, baseY + cornerR) >>
               ELSE << M(safeLeftX, baseY + cornerR) >>
      pathD == << M(0, baseY) >> \o entry \o
               << L(safeLeftX, bottomY - cornerR),
                  A(cornerR, cornerR, 0, 0, 0, safeLeftX + cornerR, bottomY),
                  L(safeRightX - cornerR, bottomY),
                  A(cornerR, cornerR, 0, 0, 0, safeRightX, bottomY - cornerR),
                  L(safeRightX, baseY + cornerR),
                  A(cornerR, cornerR, 0, 0, 1, safeRightX + cornerR, baseY),
                  L(screenW, baseY) >>
      perimeter == notchPerimeter(screenW, bottomY, baseY, padW, w)
      svgHeight == Max2(bottomY + BLEED, BLEED * 2)
      maskD == notchMask(pathD, screenW, svgHeight)
  IN [kind |-> "PathSpec",
      pathD |-> pathD,
      maskD |-> maskD,
      maskFillRule |-> "nonzero",
      perimeter |-> perimeter,
      svgLeft |-> 0,
      svgTop |-> 0,
      svgWidth |-> screenW,
      svgHeight |-> svgHeight]

\* ---------------------------------------------------- part_003: orbit family
\* mutant: the bleed added on one side only
islandCanvas_oneBleed(padX, padY, padW, padH) ==
  [svgLeft |-> padX - BLEED,
   svgTop |-> padY - BLEED,
   svgWidth |-> padW + BLEED,
   svgHeight |-> padH + BLEED]

\* the canvas of an orbit shape: the padded box grown by BLEED on every side
islandCanvas(padX, padY, padW, padH) ==
  [svgLeft |-> padX - BLEED,
   svgTop |-> padY - BLEED,
   svgWidth |-> padW + 2 * BLEED,
   svgHeight |-> padH + 2 * BLEED]

\* mutant: the mask without its outer rectangle
islandMask_noOuterRect(svgWidth, svgHeight, pathD) ==
  pathD

\* the mask of the orbit family: the canvas rectangle, then the shape
islandMask(svgWidth, svgHeight, pathD) ==
  LET outerRect == << M(0, 0), H(svgWidth), V(svgHeight), H(0), Z >>
  IN outerRect \o pathD

buildIslandSpec(cutout, padding, screenW) ==
  LET x == Nullish(cutout, "x", Half(screenW - Nullish(cutout, "width", 100 * U)))
      y == Nullish(cutout, "y", 20 * U)
      w == Nullish(cutout, "width", 0)
      h == Nullish(cutout, "height", 0)
      r == Nullish(cutout, "radius", Half(Min2(w, h)))
      isCircle == Abs(w - h) < 2 * U
      padX == x - padding
      padY == y - padding
      padW == w + 2 * padding
      padH == h + 2 * padding
      padR == r + padding
      canvas == islandCanvas(padX, padY, padW, padH)
      svgLeft == canvas.svgLeft
      svgTop == canvas.svgTop
      svgWidth == canvas.svgWidth
      svgHeight == canvas.svgHeight
      localX == padX - svgLeft
      localY == padY - svgTop
      radius == Half(Max2(padW, padH))
      cx == localX + Half(padW)
      cy == localY + Half(padH)
      pathD == IF isCircle THEN buildCirclePath(cx, cy, radius)
               ELSE buildRoundedRectPath(localX, localY, padW, padH, padR)
      perimeter == IF isCircle THEN circlePerimeter(radius)
                   ELSE roundedRectPerimeter(padW, padH, padR)
      maskD == islandMask(svgWidth, svgHeight, pathD)
  IN [kind |-> "PathSpec",
      pathD |-> pathD,
      maskD |-> maskD,
      maskFillRule |-> "evenodd",
      perimeter |-> perimeter,
      svgLeft |-> svgLeft,
      svgTop |-> svgTop,
      svgWidth |-> svgWidth,
      svgHeight |-> svgHeight]

\* mutant: only 'none' goes to the notch family
buildPathSpec_003_notchAsIsland(cutout, padding, screenW) ==
  IF cutout.type = "none"
  THEN buildNotchSpec(cutout, padding, screenW)
  ELSE buildIslandSpec(cutout, padding, screenW)

buildPathSpec_003(cutout, padding, screenW) ==
  IF cutout.type = "notch" \/ cutout.type = "none"
  THEN buildNotchSpec(cutout, padding, screenW)
  ELSE buildIslandSpec(cutout, padding, screenW)

\* ------------------------------------------------------------------ part_004
buildNotchBarPath(screenW, barY, cutoutLocalX, cutoutLocalY, cutoutW, cutoutH, padding, radius) ==
  LET padX == cutoutLocalX - padding
      padY == cutoutLocalY - padding
      padW == cutoutW + 2 * padding
      padH == cutoutH + padding
      r == Min3(radius + padding, Half(padW), Half(padH))
      leftX == padX
      rightX == padX + padW
      bottomY == padY + padH
      pathD == << M(0, barY),
                  L(leftX + r, barY),
                  A(r, r, 0, 0, 1, leftX, barY + r),
                  L(leftX, bottomY - r),
                  A(r, r, 0, 0, 0, leftX + r, bottomY),
                  L(rightX - r, bottomY),
                  A(r, r, 0, 0, 0, rightX, bottomY - r),
                  L(rightX, barY + r),
                  A(r, r, 0, 0, 1, rightX - r, barY),
                  L(screenW, barY) >>
      \* cornerArc = (PI/2)*r, four times
      notchQ == (padH - r) + (padW - 2 * r) + (padH - r)
      notchPi == 4 * Half(r)
      perimeter == Real(leftX + r + notchQ + (screenW - (rightX - r)), notchPi)
  IN [pathD |-> pathD, perimeter |-> perimeter]

\* the punch_hole and the teardrop branch (the same code twice)
buildDotSpec_004(x, y, width, height, padding, bleed) ==
  LET r == Half(Max2(width, height)) + padding
      cx == x + Half(width)
      cy == y + Half(height)
      svgLeft == Max2(0, cx - r - bleed)
      svgTop == Max2(0, cy - r - bleed)
      svgWidth == (r + bleed) * 2
      svgHeight == (r + bleed) * 2
      localCx == cx - svgLeft
      localCy == cy - svgTop
  IN [kind |-> "PathSpec",
      pathD |-> buildCirclePath(localCx, localCy, r),
      perimeter |-> circlePerimeter(r),
      svgLeft |-> svgLeft,
      svgTop |-> svgTop,
      svgWidth |-> svgWidth,
      svgHeight |-> svgHeight]

buildIslandSpec_004(cutout, padding, bleed) ==
  LET x == cutout.x
      y == cutout.y
      width == cutout.width
      height == cutout.height
      padX == x - padding
      padY == y - padding
      padW == width + 2 * padding
      padH == height + 2 * padding
      r == Min3(Nullish(cutout, "radius", 8 * U) + padding, Half(padW), Half(padH))
      svgLeft == Max2(0, padX - bleed)
      svgTop == Max2(0, padY - bleed)
      svgWidth == padW + 2 * bleed
      svgHeight == padH + 2 * bleed
      localX == padX - svgLeft
      localY == padY - svgTop
  IN [kind |-> "PathSpec",
      pathD |-> buildRoundedRectPath(localX, localY, padW, padH, r),
      perimeter |-> roundedRectPerimeter(padW, padH, r),
      svgLeft |-> svgLeft,
      svgTop |-> svgTop,
      svgWidth |-> svgWidth,
      svgHeight |-> svgHeight]

buildNotchSpec_004(cutout, padding, bleed, screenW) ==
  LET x == cutout.x
      y == cutout.y
      width == cutout.width
      height == cutout.height
      svgHeight == y + height + padding + bleed
      barY == bleed
      cutoutLocalX == x
      cutoutLocalY == y + bleed
      r == Nullish(cutout, "radius", 4 * U)
      bar == buildNotchBarPath(screenW, barY, cutoutLocalX, cutoutLocalY,
                               width, height, padding, r)
  IN [kind |-> "PathSpec",
      pathD |-> bar.pathD,
      perimeter |-> bar.perimeter,
      svgLeft |-> 0,
      svgTop |-> 0,
      svgWidth |-> screenW,
      svgHeight |-> svgHeight]

\* screenW is Dimensions.get('window').width at the time of the call
buildPathSpec_004(cutout, padding, screenW) ==
  LET type == cutout.type
      bleed == 20 * U
  IN IF type = "none"
     THEN [kind |-> "PathSpec",
           pathD |-> << M(0, bleed), L(screenW, bleed) >>,
           perimeter |-> Real(screenW, 0),
           svgLeft |-> 0,
           svgTop |-> 0,
           svgWidth |-> screenW,
           svgHeight |-> bleed * 2]
     ELSE IF {"x", "y", "width", "height"} \ DOMAIN cutout # {}
     THEN NULL
     ELSE IF type = "punch_hole"
     THEN buildDotSpec_004(cutout.x, cutout.y, cutout.width, cutout.height,
                           padding, bleed)
     ELSE IF type = "island"
     THEN buildIslandSpec_004(cutout, padding, bleed)
     ELSE IF type = "teardrop"
     THEN buildDotSpec_004(cutout.x, cutout.y, cutout.width, cutout.height,
                           padding, bleed)
     ELSE IF type = "notch"
     THEN buildNotchSpec_004(cutout, padding, bleed, screenW)
     ELSE NULL

\* ------------------------------------------------------------------ part_002
buildPathSpec_002(cutout, padding) ==
  LET type == cutout.type
      bleed == padding + 12 * U
  IN IF type = "none" \/ {"x", "y", "width", "height"} \ DOMAIN cutout # {}
     THEN NULL
     ELSE
     LET x == cutout.x
         y == cutout.y
         width == cutout.width
         height == cutout.height
     IN IF type = "punch_hole"
        THEN LET r == Half(Max2(width, height)) + padding
                 cx == x + Half(width)
                 cy == y + Half(height)
             IN [kind |-> "PathSpec",
                 pathD |-> buildCirclePath(cx, cy, r),
                 perimeter |-> circlePerimeter(r),
                 svgLeft |-> cx - r - bleed,
                 svgTop |-> cy - r - bleed,
                 svgWidth |-> (r + bleed) * 2,
                 svgHeight |-> (r + bleed) * 2]
        ELSE IF type = "island" \/ type = "notch"
        THEN LET padX == x - padding
                 padY == y - padding
                 padW == width + 2 * padding
                 padH == height + 2 * padding
                 r == Min3(Nullish(cutout, "radius", 8 * U) + padding,
                           Half(padW), Half(padH))
             IN [kind |-> "PathSpec",
                 pathD |-> buildRoundedRectPath(padX, padY, padW, padH, r),
                 perimeter |-> roundedRectPerimeter(padW, padH, r),
                 svgLeft |-> padX - bleed,
                 svgTop |-> padY - bleed,
                 svgWidth |-> padW + 2 * bleed,
                 svgHeight |-> padH + 2 * bleed]
        ELSE NULL

\* ------------------------------------------------------------------- inputs
Paddings == { p * U : p \in (-MaxPad .. MaxPad) \cup {-PadDeep} }
Dims     == { d * U : d \in (0 .. MaxDim) \cup {DimLarge} }
Radii    == { r * U : r \in 0 .. MaxRad }
Xs       == { 0, XFar * U }
Ys       == { 0, YFar * U }

FieldValues(f) ==
  CASE f = "x" -> Xs
    [] f = "y" -> Ys
    [] f = "width" -> Dims
    [] f = "height" -> Dims
    [] f = "radius" -> Radii

\* every cutout object {type, x?, y?, width?, height?, radius?} over the value
\* sets; a field that is not in the DOMAIN is an absent (undefined) property
CutoutsOver(D) ==
  { [type |-> t] @@ f :
      t \in Types \ {"none"},
      f \in { g \in [D -> Xs \cup Ys \cup Dims \cup Radii] :
                \A k \in D : g[k] \in FieldValues(k) } }

Cutouts == {[type |-> "none"]} \cup UNION { CutoutsOver(D) : D \in SUBSET Fields }

\* -------------------------------------------------------------------- state
VARIABLES
  variant,    \* which build of utils/buildPath is bundled
  cutout,     \* the Cutout handed to buildPathSpec
  padding,    \* the padding handed to buildPathSpec
  window,     \* Dimensions.get('window').width now
  SCREEN_W,   \* part_003: the window width captured when the module loaded
  spec,       \* the result of the latest call of buildPathSpec
  prev        \* the result of the call before it

\* the stroke animation of a mounted, rendered EdgeLoaderView
VARIABLES
  renderer,   \* which EdgeLoaderView draws the stroke
  loopMode,   \* 'restart' or 'continuous' (ping-pong)
  pathLen,    \* the perimeter of the PathSpec being drawn, in dash units
  beam,       \* beamLength, in TSteps-ths
  progress,   \* the animated progress value, in TSteps-ths
  rising,     \* the running timing animates towards 1 (TRUE) or towards 0
  iterations  \* the iterations the loop has finished

\* a mounted EdgeLoaderView with its useCutoutDetection hook
VARIABLES
  mounted,      \* the component is mounted
  override,     \* prop cutoutOverride (NullObj when absent)
  onDetected,   \* prop onDetected: 0 when absent, else the function's identity
  isLoading,    \* prop isLoading
  cutoutState,  \* hook state `cutout`
  isDetecting,  \* hook state `isDetecting`
  returned,     \* what the latest render saw and returned
  renderDue,    \* a render is scheduled
  effectsDue,   \* the effects of the latest render have not run yet
  overrideDep,  \* dependencies of the latest run of the hook's effect
  notifyDeps,   \* dependencies of the latest run of the onDetected effect
  animDeps,     \* dependencies of the latest run of the animation effect
  animating,    \* the progress animation is running
  raf,          \* a requestAnimationFrame callback that starts it is pending
  promises,     \* the getCutouts() calls made, each with its `cancelled` flag
  live,         \* the call whose flag the pending cleanup sets (0: none)
  notified      \* how many times onDetected was invoked

\* getCutouts()
VARIABLES
  platformOS,   \* Platform.OS
  native,       \* what the call of the native module does
  pixelRatio,   \* PixelRatio.get()
  detected      \* the promise getCutouts() returned

geomVars == <<variant, cutout, padding, window, SCREEN_W, spec, prev>>
propVars == <<override, onDetected, isLoading>>
hookVars == <<cutoutState, isDetecting, promises, live>>
effectVars == <<overrideDep, notifyDeps, animDeps, animating, raf, notified>>
viewVars == <<mounted, propVars, hookVars, returned, renderDue, effectsDue, effectVars>>
dashVars == <<renderer, loopMode, pathLen, beam, progress, rising, iterations>>
detectVars == <<platformOS, native, pixelRatio, detected>>
vars == <<geomVars, dashVars, viewVars, detectVars>>

\* `null` / `undefined` and the cutout objects: `id` is the object's identity
\* (React compares dependencies and states with Object.is)
NullObj == [id |-> 0, value |-> [type |-> "null"]]
Unrendered == [rendered |-> FALSE]

\* no view is mounted
ViewAtRest ==
  /\ mounted = FALSE
  /\ override = NullObj
  /\ onDetected = 0
  /\ isLoading = FALSE
  /\ cutoutState = NullObj
  /\ isDetecting = FALSE
  /\ returned = Unrendered
  /\ renderDue = FALSE
  /\ effectsDue = FALSE
  /\ overrideDep = << >>
  /\ notifyDeps = << >>
  /\ animDeps = << >>
  /\ animating = FALSE
  /\ raf = FALSE
  /\ promises = << >>
  /\ live = 0
  /\ notified = 0

\* getCutouts() was not called
Idle == [state |-> "idle"]
DetectAtRest ==
  /\ platformOS = "web"
  /\ native = [kind |-> "unlinked"]
  /\ pixelRatio = 1
  /\ detected = Idle

\* no view is drawing: the stroke animation is at rest
DashAtRest ==
  /\ renderer = "index.tsx"
  /\ loopMode = "restart"
  /\ pathLen = TSteps
  /\ beam = 0
  /\ progress = 0
  /\ rising = TRUE
  /\ iterations = 0

buildPathSpec(v, c, p, sw, win) ==
  CASE v = "part_003" -> buildPathSpec_003(c, p, sw)
    [] v = "part_004" -> buildPathSpec_004(c, p, win)
    [] v = "part_002" -> buildPathSpec_002(c, p)

Init ==
  /\ variant \in Variants
  /\ cutout \in Cutouts
  /\ padding \in Paddings
  /\ window \in WindowWidths
  /\ SCREEN_W = window
  /\ spec = NoCall
  /\ prev = NoCall
  /\ DashAtRest
  /\ ViewAtRest
  /\ DetectAtRest

\* a render: buildPathSpec(cutout, padding)
Call ==
  /\ spec' = buildPathSpec(variant, cutout, padding, SCREEN_W, window)
  /\ prev' = spec
  /\ UNCHANGED <<variant, cutout, padding, window, SCREEN_W>>
  /\ UNCHANGED <<dashVars, viewVars, detectVars>>

\* the device rotates: the window width changes
Rotate ==
  /\ window' \in WindowWidths \ {window}
  /\ UNCHANGED <<variant, cutout, padding, SCREEN_W, spec, prev>>
  /\ UNCHANGED <<dashVars, viewVars, detectVars>>

Next == Call \/ Rotate

Spec == Init /\ [][Next]_vars

TypeOK ==
  /\ variant \in Variants
  /\ spec.kind \in {"nocall", "null", "PathSpec"}

\* ------------------------------------------------- the animated stroke dash
\* the three views: the Skia canvas of index.tsx, the SVG views of
\* EdgeLoaderView.tsx (with loopMode) and of part_005
Renderers == {"index.tsx", "EdgeLoaderView.tsx", "part_005"}
LoopModes(r) ==
  IF r = "EdgeLoaderView.tsx" THEN {"restart", "continuous"} ELSE {"restart"}

\* beamLength * perimeter
beamArc(perimeter, beamLength) == (beamLength * perimeter) \div TSteps

\* index.tsx: the intervals of the DashPathEffect, [on, off]
intervals(perimeter, beamLength) ==
  << beamArc(perimeter, beamLength), perimeter >>

\* index.tsx: the phase of the DashPathEffect at progress t
phase(perimeter, t) == 0 - ((perimeter * t) \div TSteps)

\* EdgeLoaderView.tsx, part_005: strokeDasharray, [on, off]
dashArray(perimeter, beamLength) ==
  << beamArc(perimeter, beamLength), perimeter - beamArc(perimeter, beamLength) >>

\* EdgeLoaderView.tsx, part_005: strokeDashoffset, progress interpolated
\* from [0, 1] to [0, -perimeter]
dashOffset(perimeter, t) == 0 + ((0 - perimeter - 0) * (t - 0)) \div (TSteps - 0)

\* the dash pattern and the offset the view hands to the renderer
StrokePattern(r, perimeter, beamLength) ==
  IF r = "index.tsx" THEN intervals(perimeter, beamLength)
  ELSE dashArray(perimeter, beamLength)
StrokeOffset(r, perimeter, t) ==
  IF r = "index.tsx" THEN phase(perimeter, t) ELSE dashOffset(perimeter, t)

\* the path builder is not in use
GeomAtRest ==
  /\ variant = "part_003"
  /\ cutout = [type |-> "none"]
  /\ padding = 0
  /\ window = PortraitW
  /\ SCREEN_W = PortraitW
  /\ spec = NoCall
  /\ prev = NoCall

DashInit ==
  /\ GeomAtRest
  /\ ViewAtRest
  /\ DetectAtRest
  /\ renderer \in Renderers
  /\ loopMode \in LoopModes(renderer)
  /\ pathLen \in { TSteps * k : k \in 1 .. MaxLen }
  /\ beam \in 0 .. TSteps
  /\ progress = 0
  /\ rising = TRUE
  /\ iterations = 0

\* a frame of a timing towards 1
Advance ==
  /\ rising /\ progress < TSteps
  /\ progress' = progress + 1
  /\ UNCHANGED <<geomVars, viewVars, detectVars, renderer, loopMode, pathLen, beam, rising, iterations>>

\* 'restart': the loop resets the value and runs the timing again
Restart ==
  /\ loopMode = "restart" /\ progress = TSteps
  /\ iterations < MaxIter
  /\ progress' = 0
  /\ iterations' = iterations + 1
  /\ UNCHANGED <<geomVars, viewVars, detectVars, renderer, loopMode, pathLen, beam, rising>>

\* 'continuous': the sequence goes on with the timing towards 0
TurnBack ==
  /\ loopMode = "continuous" /\ rising /\ progress = TSteps
  /\ rising' = FALSE
  /\ UNCHANGED <<geomVars, viewVars, detectVars, renderer, loopMode, pathLen, beam, progress, iterations>>

\* a frame of a timing towards 0
Retreat ==
  /\ ~rising /\ progress > 0
  /\ progress' = progress - 1
  /\ UNCHANGED <<geomVars, viewVars, detectVars, renderer, loopMode, pathLen, beam, rising, iterations>>

\* 'continuous': the sequence ended at 0, the loop runs it again
Iterate ==
  /\ loopMode = "continuous" /\ ~rising /\ progress = 0
  /\ iterations < MaxIter
  /\ rising' = TRUE
  /\ iterations' = iterations + 1
  /\ UNCHANGED <<geomVars, viewVars, detectVars, renderer, loopMode, pathLen, beam, progress>>

DashNext == Advance \/ Restart \/ TurnBack \/ Retreat \/ Iterate

DashSpec == DashInit /\ [][DashNext]_vars

\* ------------------------------- useCutoutDetection and EdgeLoaderView
\* the objects a parent passes as cutoutOverride
OverrideA ==
  [id |-> 1,
   value |-> [type |-> "island", x |-> XFar * U, y |-> YFar * U,
              width |-> DimLarge * U, height |-> MaxDim * U, radius |-> MaxRad * U]]
OverrideB == [id |-> 2, value |-> [type |-> "punch_hole"]]
Overrides == {OverrideA, OverrideB}

\* what getCutouts() resolves to: { type: 'none' }, or the punch hole the
\* native module reports; every call builds a new object
DetectValues ==
  { [type |-> "none"],
    [type |-> "punch_hole", x |-> XFar * U, y |-> YFar * U,
     width |-> MaxDim * U, height |-> MaxDim * U] }
Detected(i, v) == [id |-> 10 + i, value |-> v]

\* the { type: 'none' } the hook's catch handler sets
Fallback(i) == [id |-> 20 + i, value |-> [type |-> "none"]]

\* if (!isLoading || isDetecting || cutout == null) return null
Hidden(loading, detecting, c) == ~loading \/ detecting \/ c = NullObj

\* useState(override ?? null), useState(override == null)
\* (index.tsx reads maskD from the PathSpec: its builder is part_003)
ViewInit ==
  /\ DashAtRest
  /\ DetectAtRest
  /\ variant = "part_003"
  /\ cutout = [type |-> "none"]
  /\ padding = 0
  /\ window = PortraitW
  /\ SCREEN_W = window
  /\ spec = NoCall
  /\ prev = NoCall
  /\ mounted = TRUE
  /\ override \in Overrides \cup {NullObj}
  /\ onDetected \in 0 .. MaxFn
  /\ isLoading \in BOOLEAN
  /\ cutoutState = override
  /\ isDetecting = (override = NullObj)
  /\ returned = Unrendered
  /\ renderDue = TRUE
  /\ effectsDue = FALSE
  /\ overrideDep = << >>
  /\ notifyDeps = << >>
  /\ animDeps = << >>
  /\ animating = FALSE
  /\ raf = FALSE
  /\ promises = << >>
  /\ live = 0
  /\ notified = 0

\* the parent renders again and hands the view its props: the same ones,
\* or another cutoutOverride, another onDetected function, another isLoading
ParentRender ==
  /\ mounted /\ returned.rendered /\ ~effectsDue
  /\ override' \in Overrides \cup {NullObj}
  /\ onDetected' \in 0 .. MaxFn
  /\ isLoading' \in BOOLEAN
  /\ renderDue' = TRUE
  /\ UNCHANGED <<geomVars, dashVars, detectVars, mounted, hookVars>>
  /\ UNCHANGED <<returned, effectsDue, effectVars>>

\* the function component runs: the hook returns { cutout, isDetecting }
\* from its state; the view returns null when hidden or when
\* buildPathSpec(cutout, padding) is null, and draws the PathSpec otherwise
Render ==
  /\ mounted /\ renderDue /\ ~effectsDue
  /\ LET hidden == Hidden(isLoading, isDetecting, cutoutState)
         built == buildPathSpec(variant, cutoutState.value, padding, SCREEN_W, window)
     IN /\ returned' = [rendered |-> TRUE,
                        override |-> override,
                        cutout |-> cutoutState,
                        isDetecting |-> isDetecting,
                        onDetected |-> onDetected,
                        isLoading |-> isLoading,
                        shown |-> ~hidden /\ built # NULL]
  /\ renderDue' = FALSE
  /\ effectsDue' = TRUE
  /\ UNCHANGED <<geomVars, dashVars, detectVars>>
  /\ UNCHANGED <<mounted, propVars, hookVars, effectVars>>

\* variant: the effect's cleanup without cancelAnimationFrame(raf)
animationEffect_rafKept(view, hidden, running, pending, value) ==
  IF hidden
  THEN [animating |-> FALSE, raf |-> pending, progress |-> 0]
  ELSE CASE view = "index.tsx" -> [animating |-> TRUE, raf |-> FALSE, progress |-> 0]
         [] view = "part_005" -> [animating |-> TRUE, raf |-> FALSE, progress |-> value]
         [] view = "EdgeLoaderView.tsx" -> [animating |-> FALSE, raf |-> TRUE, progress |-> value]

\* the animation effect runs again: the cleanup of its previous run
\* (EdgeLoaderView.tsx: cancelAnimationFrame(raf), anim.stop(); part_005:
\* anim.stop(); index.tsx: none), then its body: hidden, the animation is
\* stopped and progress set to 0; otherwise index.tsx sets progress to 0 and
\* assigns the repeating animation, part_005 starts the loop and
\* EdgeLoaderView.tsx requests a frame that starts it
animationEffect(view, hidden, running, pending, value) ==
  IF hidden
  THEN [animating |-> FALSE, raf |-> FALSE, progress |-> 0]
  ELSE CASE view = "index.tsx" -> [animating |-> TRUE, raf |-> FALSE, progress |-> 0]
         [] view = "part_005" -> [animating |-> TRUE, raf |-> FALSE, progress |-> value]
         [] view = "EdgeLoaderView.tsx" -> [animating |-> FALSE, raf |-> TRUE, progress |-> value]

\* the effects of the latest render run, each when its dependencies changed:
\* the hook's effect ([override]), the onDetected effect
\* ([isDetecting, cutout, onDetected]) and the animation effect
Commit ==
  /\ mounted /\ effectsDue
  /\ LET r == returned
         runHook == overrideDep # << r.override >>
         detect == runHook /\ r.override = NullObj
         cleaned == IF runHook /\ live # 0
                    THEN [promises EXCEPT ![live].cancelled = TRUE]
                    ELSE promises
         runNotify == notifyDeps # << r.isDetecting, r.cutout, r.onDetected >>
         notify == runNotify /\ ~r.isDetecting /\ r.cutout # NullObj /\ r.onDetected # 0
         runAnim == animDeps # << r.isLoading, r.isDetecting, r.cutout >>
         anim == IF runAnim
                 THEN animationEffect(renderer, Hidden(r.isLoading, r.isDetecting, r.cutout),
                                      animating, raf, progress)
                 ELSE [animating |-> animating, raf |-> raf, progress |-> progress]
     IN /\ detect => Len(promises) < MaxDetect
        /\ notify => notified < MaxNotify
        /\ promises' = IF detect
                       THEN Append(cleaned, [cancelled |-> FALSE, state |-> "pending"])
                       ELSE cleaned
        /\ live' = IF ~runHook THEN live ELSE IF detect THEN Len(promises) + 1 ELSE 0
        /\ cutoutState' = IF runHook /\ ~detect THEN r.override ELSE cutoutState
        /\ isDetecting' = IF runHook THEN detect ELSE isDetecting
        /\ overrideDep' = << r.override >>
        /\ notified' = IF notify THEN notified + 1 ELSE notified
        /\ notifyDeps' = << r.isDetecting, r.cutout, r.onDetected >>
        /\ animating' = anim.animating
        /\ raf' = anim.raf
        /\ progress' = anim.progress
        /\ animDeps' = << r.isLoading, r.isDetecting, r.cutout >>
  /\ effectsDue' = FALSE
  /\ renderDue' = (renderDue \/ cutoutState' # cutoutState \/ isDetecting' # isDetecting)
  /\ UNCHANGED <<geomVars, detectVars, mounted, propVars, returned>>
  /\ UNCHANGED <<renderer, loopMode, pathLen, beam, rising, iterations>>

\* variant: the .then handler without the `cancelled` test
Resolve_ignoresCancelled ==
  \E i \in 1 .. Len(promises), v \in DetectValues :
    /\ promises[i].state = "pending"
    /\ promises' = [promises EXCEPT ![i].state = "resolved"]
    /\ cutoutState' = Detected(i, v)
    /\ isDetecting' = FALSE
    /\ renderDue' = mounted
    /\ UNCHANGED <<geomVars, dashVars, detectVars, mounted, propVars, live>>
    /\ UNCHANGED <<returned, effectsDue, effectVars>>

\* getCutouts() call i resolves: .then(result => if (!cancelled) ...)
Resolve ==
  \E i \in 1 .. Len(promises), v \in DetectValues :
    /\ promises[i].state = "pending"
    /\ promises' = [promises EXCEPT ![i].state = "resolved"]
    /\ IF promises[i].cancelled
       THEN UNCHANGED <<cutoutState, isDetecting, renderDue>>
       ELSE /\ cutoutState' = Detected(i, v)
            /\ isDetecting' = FALSE
            /\ renderDue' = TRUE
    /\ UNCHANGED <<geomVars, dashVars, detectVars, mounted, propVars, live>>
    /\ UNCHANGED <<returned, effectsDue, effectVars>>

\* variant: the .catch handler sets the fallback and leaves isDetecting
Reject_keepsDetecting ==
  \E i \in 1 .. Len(promises) :
    /\ promises[i].state = "pending"
    /\ promises' = [promises EXCEPT ![i].state = "rejected"]
    /\ IF promises[i].cancelled
       THEN UNCHANGED <<cutoutState, isDetecting, renderDue>>
       ELSE /\ cutoutState' = Fallback(i)
            /\ isDetecting' = isDetecting
            /\ renderDue' = TRUE
    /\ UNCHANGED <<geomVars, dashVars, detectVars, mounted, propVars, live>>
    /\ UNCHANGED <<returned, effectsDue, effectVars>>

\* getCutouts() call i rejects: .catch(e => if (!cancelled) ...)
Reject ==
  \E i \in 1 .. Len(promises) :
    /\ promises[i].state = "pending"
    /\ promises' = [promises EXCEPT ![i].state = "rejected"]
    /\ IF promises[i].cancelled
       THEN UNCHANGED <<cutoutState, isDetecting, renderDue>>
       ELSE /\ cutoutState' = Fallback(i)
            /\ isDetecting' = FALSE
            /\ renderDue' = TRUE
    /\ UNCHANGED <<geomVars, dashVars, detectVars, mounted, propVars, live>>
    /\ UNCHANGED <<returned, effectsDue, effectVars>>

\* the component unmounts: the hook's cleanup sets `cancelled`; the cleanup
\* of the animation effect (EdgeLoaderView.tsx, part_005) or of
\* useSharedValue (index.tsx) stops the animation
Unmount ==
  /\ mounted /\ returned.rendered
  /\ mounted' = FALSE
  /\ animating' = FALSE
  /\ raf' = FALSE
  /\ promises' = IF live # 0 THEN [promises EXCEPT ![live].cancelled = TRUE]
                 ELSE promises
  /\ live' = 0
  /\ renderDue' = FALSE
  /\ effectsDue' = FALSE
  /\ UNCHANGED <<geomVars, dashVars, detectVars, propVars, cutoutState, isDetecting>>
  /\ UNCHANGED <<returned, overrideDep, notifyDeps, animDeps, notified>>

ViewNext ==
  ParentRender \/ Render \/ Commit \/ Resolve \/ Reject \/ Unmount

ViewSpec == ViewInit /\ [][ViewNext]_vars

\* the view with no cutoutOverride, which stays mounted and whose
\* getCutouts() promise settles: renders, effects and promise reactions
\* that are due are run by the scheduler and the microtask queue
LiveInit == ViewInit /\ override = NullObj

LiveParentRender == ParentRender /\ override' = NullObj

LiveNext == LiveParentRender \/ Render \/ Commit \/ Resolve \/ Reject

LiveSpec ==
  /\ LiveInit
  /\ [][LiveNext]_vars
  /\ WF_vars(Render)
  /\ WF_vars(Commit)
  /\ WF_vars(Resolve \/ Reject)

\* the three views with their animation: no onDetected callback
AnimInit ==
  /\ GeomAtRest
  /\ DetectAtRest
  /\ renderer \in Renderers
  /\ loopMode = "restart"
  /\ pathLen = TSteps
  /\ beam = 0
  /\ progress = 0
  /\ rising = TRUE
  /\ iterations = 0
  /\ mounted = TRUE
  /\ override \in Overrides \cup {NullObj}
  /\ onDetected = 0
  /\ isLoading \in BOOLEAN
  /\ cutoutState = override
  /\ isDetecting = (override = NullObj)
  /\ returned = Unrendered
  /\ renderDue = TRUE
  /\ effectsDue = FALSE
  /\ overrideDep = << >>
  /\ notifyDeps = << >>
  /\ animDeps = << >>
  /\ animating = FALSE
  /\ raf = FALSE
  /\ promises = << >>
  /\ live = 0
  /\ notified = 0

AnimParentRender == ParentRender /\ onDetected' = 0

\* EdgeLoaderView.tsx: the requested frame comes, anim.start()
Frame ==
  /\ mounted /\ raf
  /\ raf' = FALSE
  /\ animating' = TRUE
  /\ UNCHANGED <<geomVars, dashVars, detectVars, mounted, propVars, hookVars>>
  /\ UNCHANGED <<returned, renderDue, effectsDue, overrideDep, notifyDeps, animDeps, notified>>

\* a frame of the running loop: progress moves on; after 1 the loop has
\* made an iteration and starts over
Tick ==
  /\ animating
  /\ progress = TSteps => iterations < MaxIter
  /\ progress' = (progress + 1) % (TSteps + 1)
  /\ iterations' = IF progress = TSteps THEN iterations + 1 ELSE iterations
  /\ UNCHANGED <<geomVars, viewVars, detectVars>>
  /\ UNCHANGED <<renderer, loopMode, pathLen, beam, rising>>

AnimNext ==
  AnimParentRender \/ Render \/ Commit \/ Resolve \/ Reject \/ Unmount \/ Frame \/ Tick

AnimSpec == AnimInit /\ [][AnimNext]_vars

\* ------------------------------------------------------------- getCutouts
Entry(type, width, height, radius) ==
  [type |-> type, width |-> width * U, height |-> height * U, radius |-> radius * U]

IPHONE_DB ==
  ("iPhone15,2" :> Entry("island", 126, 37, 20)) @@
  ("iPhone15,3" :> Entry("island", 126, 37, 20)) @@
  ("iPhone16,1" :> Entry("island", 126, 37, 20)) @@
  ("iPhone16,2" :> Entry("island", 126, 37, 20)) @@
  ("iPhone17,1" :> Entry("island", 127, 37, 20)) @@
  ("iPhone17,2" :> Entry("island", 127, 37, 20)) @@
  ("iPhone18,1" :> Entry("island", 127, 37, 20)) @@
  ("iPhone18,2" :> Entry("island", 127, 37, 20)) @@
  ("iPhone13,1" :> Entry("notch", 209, 30, 6)) @@
  ("iPhone13,2" :> Entry("notch", 209, 30, 6)) @@
  ("iPhone13,3" :> Entry("notch", 209, 30, 6)) @@
  ("iPhone13,4" :> Entry("notch", 230, 30, 6)) @@
  ("iPhone14,4" :> Entry("notch", 162, 30, 6)) @@
  ("iPhone14,5" :> Entry("notch", 162, 30, 6)) @@
  ("iPhone14,2" :> Entry("notch", 162, 30, 6)) @@
  ("iPhone14,3" :> Entry("notch", 162, 30, 6)) @@
  ("iPhone14,7" :> Entry("notch", 162, 30, 6)) @@
  ("iPhone14,8" :> Entry("notch", 162, 30, 6)) @@
  ("iPhone15,4" :> Entry("punch_hole", 11, 11, 6)) @@
  ("iPhone15,5" :> Entry("punch_hole", 11, 11, 6)) @@
  ("iPhone16,3" :> Entry("punch_hole", 11, 11, 6)) @@
  ("iPhone16,4" :> Entry("punch_hole", 11, 11, 6)) @@
  ("iPhone17,3" :> Entry("punch_hole", 11, 11, 6)) @@
  ("iPhone17,4" :> Entry("punch_hole", 11, 11, 6))

\* the promise of an async function: resolved with a value, or rejected
Resolved(v) == [state |-> "resolved", value |-> v]
Rejected == [state |-> "rejected"]

\* `await EdgeLoader.method()` throws: the module is not linked (the Proxy's
\* get throws) or the native promise rejects
Throws(nat) == nat.kind \in {"unlinked", "rejected"}

\* a pixel length in DIP: n / ratio
Dip(n, ratio) == (n * U) \div ratio

\* the android branch: the first bounding rect, scaled by the pixel ratio
androidCutout(nat, ratio) ==
  IF nat.kind = "resolved" /\ Len(nat.cutouts) > 0
  THEN LET c == nat.cutouts[1]
       IN Resolved([type |-> "punch_hole",
                    x |-> Dip(c.x, ratio), y |-> Dip(c.y, ratio),
                    width |-> Dip(c.width, ratio), height |-> Dip(c.height, ratio)])
  ELSE Resolved([type |-> "none"])

\* the ios branch: the table entry of the model, centred in the window
iosCutout(nat, win) ==
  IF nat.kind = "resolved" /\ nat.modelId \in DOMAIN IPHONE_DB
  THEN LET info == IPHONE_DB[nat.modelId]
       IN Resolved([type |-> info.type, width |-> info.width,
                    height |-> info.height, radius |-> info.radius,
                    x |-> Half(win - info.width), y |-> 11 * U])
  ELSE Resolved([type |-> "none"])

\* variant: the native calls outside the try blocks
getCutouts_noCatch(os, nat, ratio, win) ==
  CASE os = "android" -> IF Throws(nat) THEN Rejected ELSE androidCutout(nat, ratio)
    [] os = "ios" -> IF Throws(nat) THEN Rejected ELSE iosCutout(nat, win)
    [] OTHER -> Resolved([type |-> "none"])

\* what is thrown inside a try block is caught and logged, and the function
\* goes on to its `return { type: 'none' }`
getCutouts(os, nat, ratio, win) ==
  CASE os = "android" ->
         IF Throws(nat) THEN Resolved([type |-> "none"]) ELSE androidCutout(nat, ratio)
    [] os = "ios" ->
         IF Throws(nat) THEN Resolved([type |-> "none"]) ELSE iosCutout(nat, win)
    [] OTHER -> Resolved([type |-> "none"])

\* the inputs: platforms, pixel ratios, the bounding rects of the display
\* cutout in pixels, model identifiers in and out of the table
Platforms == {"android", "ios", "web"}
PixelRatios == {1, 2, 3}
PxCell == 2 * 3
Pixels == { PxCell * k : k \in 0 .. MaxCell }
NativeRects == [x : Pixels, y : Pixels, width : Pixels \ {0}, height : Pixels \ {0}]
OtherRect == [x |-> 0, y |-> 0, width |-> PxCell, height |-> PxCell]
NativeLists ==
  {<< >>} \cup { <<r>> : r \in NativeRects } \cup { <<r, OtherRect>> : r \in NativeRects }
ModelIds == DOMAIN IPHONE_DB \cup {"", "iPhone12,1", "x86_64"}
NativeFailures == { [kind |-> "unlinked"], [kind |-> "rejected"] }
NativeOutcomes(os) ==
  CASE os = "android" ->
         NativeFailures \cup {[kind |-> "resolvedNull"]}
           \cup { [kind |-> "resolved", cutouts |-> l] : l \in NativeLists }
    [] os = "ios" ->
         NativeFailures \cup { [kind |-> "resolved", modelId |-> m] : m \in ModelIds }
    [] OTHER -> NativeFailures

DetectInit ==
  /\ DashAtRest
  /\ ViewAtRest
  /\ variant = "part_003"
  /\ cutout = [type |-> "none"]
  /\ padding = 0
  /\ window \in WindowWidths
  /\ SCREEN_W = window
  /\ spec = NoCall
  /\ prev = NoCall
  /\ platformOS \in Platforms
  /\ native \in NativeOutcomes(platformOS)
  /\ pixelRatio \in PixelRatios
  /\ detected = Idle

\* getCutouts() is called and its promise settles
Detect ==
  /\ detected = Idle
  /\ detected' = getCutouts(platformOS, native, pixelRatio, window)
  /\ UNCHANGED <<geomVars, dashVars, viewVars, platformOS, native, pixelRatio>>

DetectNext == Detect

DetectSpec == DetectInit /\ [][DetectNext]_vars

\* ------------------------------------------------------------------- claims
OrbitTypes == {"punch_hole", "teardrop", "island"}
Returned == spec.kind = "PathSpec"
Called == spec.kind # "nocall"
Ops(path) == { path[i].op : i \in 1 .. Len(path) }

\* the coordinate points a path string names: the target of every M and L
\* and the end point of every A
PathPoints(path) ==
  { IF path[i].op = "A" THEN <<path[i].args[6], path[i].args[7]>>
    ELSE <<path[i].args[1], path[i].args[2]>> :
      i \in { j \in 1 .. Len(path) : path[j].op \in {"M", "L", "A"} } }

\* the length of a path of axis-parallel lines and quarter arcs: |dx| + |dy|
\* for every L and (PI/2)*r for every A of radius r
RECURSIVE PathLengthFrom(_, _, _)
PathLengthFrom(path, i, pt) ==
  IF i > Len(path) THEN Real(0, 0)
  ELSE LET c == path[i]
           to == IF c.op = "A" THEN <<c.args[6], c.args[7]>>
                 ELSE IF c.op \in {"M", "L"} THEN <<c.args[1], c.args[2]>>
                 ELSE pt
           rest == PathLengthFrom(path, i + 1, to)
       IN CASE c.op = "L" ->
                 Real(rest.q + Abs(to[1] - pt[1]) + Abs(to[2] - pt[2]), rest.pi)
            [] c.op = "A" -> Real(rest.q, rest.pi + Half(c.args[1]))
            [] OTHER -> rest
PathLength(path) == PathLengthFrom(path, 1, <<0, 0>>)

\* the bleed margin of the bundled build
BleedOf(v, p) ==
  CASE v = "part_003" -> BLEED
    [] v = "part_004" -> 20 * U
    [] v = "part_002" -> p + 12 * U

\* C1: for a cutout of a type other than 'none' that lacks width or height,
\* buildPathSpec returns null, never a PathSpec (builds part_003, part_004).
C1_MissingDimensionsGiveNull ==
  ( /\ variant \in {"part_003", "part_004"}
    /\ Called
    /\ cutout.type # "none"
    /\ {"width", "height"} \ DOMAIN cutout # {} )
  => spec = NULL

\* C2: every PathSpec returned for a cutout of one of the five types has a
\* perimeter > 0 (build part_003).
C2_PerimeterPositive ==
  (variant = "part_003" /\ cutout.type \in KnownTypes /\ Returned)
  => Positive(spec.perimeter)

\* C3: for type 'none' and padding p the result is the PathSpec whose pathD is
\* "M 0,p L SCREEN_W,p" and whose maskFillRule is 'nonzero' (build part_003).
C3_NoneIsStraightLine ==
  (variant = "part_003" /\ cutout.type = "none" /\ Called)
  => /\ Returned
     /\ spec.pathD = << M(0, padding), L(SCREEN_W, padding) >>
     /\ spec.maskFillRule = "nonzero"

C3_Witness ==
  /\ variant = "part_003" /\ cutout.type = "none" /\ Returned
  /\ padding # 0
  /\ window # SCREEN_W

\* C4: every coordinate point of the pathD of an orbit-family PathSpec lies in
\* [0, svgWidth] x [0, svgHeight] (all three builds).
C4_OrbitPathInsideCanvas ==
  (cutout.type \in OrbitTypes /\ Returned)
  => \A pt \in PathPoints(spec.pathD) :
        /\ 0 <= pt[1] /\ pt[1] <= spec.svgWidth
        /\ 0 <= pt[2] /\ pt[2] <= spec.svgHeight

\* C5: two calls with the same arguments return the same result, whatever
\* happened between them (builds part_003, part_004).  cutout and padding never
\* change, so spec and prev are the results of two calls with equal arguments.
C5_SameArgumentsSameResult ==
  (variant \in {"part_003", "part_004"} /\ Called /\ prev.kind # "nocall")
  => spec = prev

\* C6: for a type outside the five known ones buildPathSpec returns null
\* (builds part_003, part_004).
C6_UnknownTypeGivesNull ==
  (variant \in {"part_003", "part_004"} /\ Called /\ cutout.type \notin KnownTypes)
  => spec = NULL

\* C7 as stated: for an island with x, width, height and any padding p,
\* svgWidth = width + 2p + 2*bleed and svgLeft < x whenever bleed > 0
\* (builds part_003, part_004).
C7_IslandCase ==
  /\ variant \in {"part_003", "part_004"}
  /\ cutout.type = "island"
  /\ {"x", "width", "height"} \subseteq DOMAIN cutout
  /\ Returned

C7_IslandCanvasAsStated ==
  C7_IslandCase =>
    /\ spec.svgWidth = cutout.width + 2 * padding + 2 * BleedOf(variant, padding)
    /\ BleedOf(variant, padding) > 0 => spec.svgLeft < cutout.x

\* C7 amended: svgWidth = width + 2p + 2*bleed, and svgLeft < x whenever
\* padding + bleed > 0 and, in the build that clamps the canvas origin at 0
\* (part_004), x > 0.
C7_IslandCanvas ==
  C7_IslandCase =>
    /\ spec.svgWidth = cutout.width + 2 * padding + 2 * BleedOf(variant, padding)
    /\ ( /\ padding + BleedOf(variant, padding) > 0
         /\ variant = "part_004" => cutout.x > 0 )
       => spec.svgLeft < cutout.x

C7_Witness ==
  /\ C7_IslandCase
  /\ variant = "part_003"
  /\ padding > 0
  /\ spec.svgLeft < cutout.x

\* C8: for a notch, a larger padding gives a strictly larger perimeter, both
\* padded notches lying within the screen (builds part_003, part_004).
\* spec is the result for `padding`; it is compared with the result for every
\* other padding p2 under the screen width spec was built with.
NotchX(c, sw) == Nullish(c, "x", Half(sw - Nullish(c, "width", 0)))
NotchInScreen(c, p, sw) ==
  LET left == NotchX(c, sw) - p
      right == NotchX(c, sw) + Nullish(c, "width", 0) + p
  IN 0 <= left /\ left <= right /\ right <= sw

C8_Case(p2) ==
  /\ variant \in {"part_003", "part_004"}
  /\ cutout.type = "notch"
  /\ Returned
  /\ variant = "part_004" => spec.svgWidth = window
  /\ p2 # padding
  /\ NotchInScreen(cutout, padding, spec.svgWidth)
  /\ NotchInScreen(cutout, p2, spec.svgWidth)
  /\ buildPathSpec(variant, cutout, p2, SCREEN_W, window).kind = "PathSpec"

C8_NotchPerimeterMonotone ==
  \A p2 \in Paddings :
    C8_Case(p2) =>
      LET other == buildPathSpec(variant, cutout, p2, SCREEN_W, window).perimeter
      IN IF padding < p2 THEN Less(spec.perimeter, other)
         ELSE Less(other, spec.perimeter)

C8_Witness ==
  /\ variant = "part_003"
  /\ \E p2 \in Paddings : C8_Case(p2) /\ p2 > padding /\ padding >= 0
  /\ "x" \in DOMAIN cutout /\ cutout.x > 0

\* C9: the perimeter of a notch PathSpec is the length of its pathD: the
\* lines plus the quarter arcs of the radius used in the path
\* (builds part_003, part_004).
C9_NotchPerimeterIsPathLength ==
  (variant \in {"part_003", "part_004"} /\ cutout.type = "notch" /\ Returned)
  => spec.perimeter = PathLength(spec.pathD)

\* C10 as stated: every command of every pathD and maskD is M, L, A or Z.
C10_OnlyMLAZ ==
  Returned =>
    /\ Ops(spec.pathD) \subseteq {"M", "L", "A", "Z"}
    /\ "maskD" \in DOMAIN spec => Ops(spec.maskD) \subseteq {"M", "L", "A", "Z"}

\* C10 amended: every command of every pathD is M, L, A or Z; every command
\* of a maskD is M, L, A, Z, H or V, and H and V occur only in the outer canvas
\* rectangle that opens the mask of an orbit-family shape (build part_003).
C10_PathCommands ==
  Returned =>
    /\ Ops(spec.pathD) \subseteq {"M", "L", "A", "Z"}
    /\ "maskD" \in DOMAIN spec =>
         /\ Ops(spec.maskD) \subseteq {"M", "L", "A", "Z", "H", "V"}
         /\ \A i \in 1 .. Len(spec.maskD) :
              spec.maskD[i].op \in {"H", "V"} =>
                /\ spec.maskFillRule = "evenodd"
                /\ i \in 2 .. 4

C10_Witness ==
  /\ Returned
  /\ "maskD" \in DOMAIN spec
  /\ cutout.type = "island"
  /\ Ops(spec.pathD) = {"M", "L", "A", "Z"}
  /\ "H" \in Ops(spec.maskD)


\* ------------------------------------------------ claims on shape and mask
HasBox == {"width", "height"} \subseteq DOMAIN cutout
OpsOf(path) == [ i \in 1 .. Len(path) |-> path[i].op ]
CircleOps == << "M", "A", "A", "Z" >>
RoundedRectOps == << "M", "L", "A", "L", "A", "L", "A", "L", "A", "Z" >>
ArcRadii(path) == { path[i].args[1] : i \in { j \in 1 .. Len(path) : path[j].op = "A" } }
IsCircleOfRadius(path, r) == OpsOf(path) = CircleOps /\ ArcRadii(path) = {r}
IsRoundedRect(path) == OpsOf(path) = RoundedRectOps

\* C11: on builds part_003 and part_004 the shape of an orbit-family path
\* follows from the type alone: a punch_hole or teardrop cutout gets a circle
\* of radius max(width, height)/2 + padding, an island cutout gets a rounded
\* rectangle whose arcs use min(radius + padding, padW/2, padH/2).
C11_ShapeChosenByType ==
  (variant \in {"part_003", "part_004"} /\ Returned /\ HasBox
     /\ cutout.type \in OrbitTypes) =>
    LET padW == cutout.width + 2 * padding
        padH == cutout.height + 2 * padding
    IN IF cutout.type = "island"
       THEN /\ IsRoundedRect(spec.pathD)
            /\ "radius" \in DOMAIN cutout =>
                 ArcRadii(spec.pathD) = {Min3(cutout.radius + padding, Half(padW), Half(padH))}
       ELSE IsCircleOfRadius(spec.pathD, Half(Max2(cutout.width, cutout.height)) + padding)

\* C12: on builds part_003 and part_002, whenever roundedRectPerimeter is
\* applied to a padded size w > 0, h > 0 the perimeter is at least
\* 2*(w+h) - 8*safeR and both straight runs w - 2*safeR and h - 2*safeR
\* are non-negative, safeR being the radius of the arcs.
C12_RoundedRectPerimeterBound ==
  (variant \in {"part_003", "part_002"} /\ Returned /\ HasBox
     /\ IsRoundedRect(spec.pathD)
     /\ cutout.width + 2 * padding > 0 /\ cutout.height + 2 * padding > 0) =>
    LET w == cutout.width + 2 * padding
        h == cutout.height + 2 * padding
        safeR == spec.pathD[3].args[1]
    IN /\ ~Less(spec.perimeter, Real(2 * (w + h) - 8 * safeR, 0))
       /\ w - 2 * safeR >= 0
       /\ h - 2 * safeR >= 0

\* the length drawn by a path of lines and circular arcs: |dx| + |dy| for an
\* axis-parallel L, PI*|r| for a half-circle A (large-arc flag 1) and
\* (PI/2)*|r| for a quarter-circle A (large-arc flag 0)
RECURSIVE TracedLengthFrom(_, _, _)
TracedLengthFrom(path, i, pt) ==
  IF i > Len(path) THEN Real(0, 0)
  ELSE LET c == path[i]
           to == IF c.op = "A" THEN <<c.args[6], c.args[7]>>
                 ELSE IF c.op \in {"M", "L"} THEN <<c.args[1], c.args[2]>>
                 ELSE pt
           rest == TracedLengthFrom(path, i + 1, to)
       IN CASE c.op = "L" ->
                 Real(rest.q + Abs(to[1] - pt[1]) + Abs(to[2] - pt[2]), rest.pi)
            [] c.op = "A" ->
                 Real(rest.q, rest.pi + (IF c.args[4] = 1 THEN Abs(c.args[1])
                                         ELSE Half(Abs(c.args[1]))))
            [] OTHER -> rest
TracedLength(path) == TracedLengthFrom(path, 1, <<0, 0>>)

\* C13: on build part_003 the perimeter of every orbit-family PathSpec is
\* the length of the curve pathD draws: 2*PI*r for a circle, the four
\* straight runs plus four quarter arcs for a rounded rectangle.
C13_OrbitPerimeterIsPathLength ==
  (variant = "part_003" /\ Returned /\ cutout.type \in OrbitTypes) =>
    spec.perimeter = TracedLength(spec.pathD)

\* C14: on build part_003, for every notch cutout and padding, maskD is
\* pathD followed by a line to (screenWidth, svgHeight), a line to
\* (0, svgHeight) and Z, and maskFillRule is 'nonzero'.
C14_NotchMask ==
  (variant = "part_003" /\ Returned /\ cutout.type = "notch") =>
    /\ spec.maskD = spec.pathD \o << L(SCREEN_W, spec.svgHeight), L(0, spec.svgHeight), Z >>
    /\ spec.maskFillRule = "nonzero"
C14_Witness ==
  /\ variant = "part_003" /\ Returned /\ cutout.type = "notch" /\ HasBox
  /\ cutout.height > 0 /\ padding > 0
  /\ Len(spec.maskD) = Len(spec.pathD) + 3

\* C15: on build part_003, for every orbit-family cutout and padding, maskD
\* is the rectangle M 0,0 H svgWidth V svgHeight H 0 Z followed by pathD,
\* and maskFillRule is 'evenodd'.
C15_OrbitMask ==
  (variant = "part_003" /\ Returned /\ cutout.type \in OrbitTypes) =>
    /\ spec.maskD = << M(0, 0), H(spec.svgWidth), V(spec.svgHeight), H(0), Z >> \o spec.pathD
    /\ spec.pathD[Len(spec.pathD)] = Z
    /\ spec.maskFillRule = "evenodd"
C15_Witness ==
  /\ variant = "part_003" /\ Returned /\ cutout.type = "island" /\ HasBox
  /\ cutout.width > cutout.height /\ cutout.height > 0 /\ padding > 0
  /\ IsRoundedRect(spec.pathD)
  /\ Len(spec.maskD) = 15

\* C16: on build part_003, for every notch cutout and padding p, the canvas
\* is the full-width strip at the origin (svgLeft = 0, svgTop = 0,
\* svgWidth = screenWidth), pathD begins with M 0,p and ends with
\* L screenWidth,p.
C16_NotchStrip ==
  (variant = "part_003" /\ Returned /\ cutout.type = "notch") =>
    /\ spec.svgLeft = 0 /\ spec.svgTop = 0 /\ spec.svgWidth = SCREEN_W
    /\ spec.pathD[1] = M(0, padding)
    /\ spec.pathD[Len(spec.pathD)] = L(SCREEN_W, padding)
C16_Witness ==
  /\ variant = "part_003" /\ Returned /\ cutout.type = "notch" /\ HasBox
  /\ cutout.width > 0 /\ padding < 0
  /\ spec.pathD[1] = M(0, padding)
  /\ Len(spec.pathD) > 2



\* ------------------------------------------------ claims on the notch bar
\* the end point of a path command
EndOf(c) == IF c.op = "A" THEN <<c.args[6], c.args[7]>> ELSE <<c.args[1], c.args[2]>>
NotchReturned(vs) == variant \in vs /\ Returned /\ cutout.type = "notch"
ScreenOf(v) == IF v = "part_003" THEN SCREEN_W ELSE window

\* C21: on builds part_003 and part_004, the corner radius r of every notch
\* pathD is at most padW/2 and padH/2, the left wall runs downward
\* (baseY + r <= bottomY - r) and the bottom run goes left to right
\* (left + r <= right - r).
C21_NotchCornerClamped ==
  NotchReturned({"part_003", "part_004"}) =>
    LET p == spec.pathD
        n == Len(p)
        r == p[n - 5].args[1]
        padW == Nullish(cutout, "width", 0) + 2 * padding
        padH == Nullish(cutout, "height", 0) + padding
    IN /\ 2 * r <= padW
       /\ 2 * r <= padH
       /\ EndOf(p[n - 7])[2] <= EndOf(p[n - 6])[2]
       /\ EndOf(p[n - 5])[1] <= EndOf(p[n - 4])[1]

\* C22: on builds part_003 and part_004, a notch pathD has no zero-length
\* and no backward run-in or run-out: with the padded left boundary at or
\* left of x = 0 the path has no initial line and starts at the descent
\* point; otherwise the run-in goes from (0, baseY) to (left - r, baseY)
\* with left - r >= 0; the run-out goes from (right + r, baseY) to
\* (screenWidth, baseY) with right + r <= screenWidth.
C22_NotchRunsForward ==
  NotchReturned({"part_003", "part_004"}) =>
    LET p == spec.pathD
        n == Len(p)
        r == p[n - 5].args[1]
        baseY == p[1].args[2]
        left == EndOf(p[n - 6])[1]
        right == EndOf(p[n - 2])[1]
        screenW == ScreenOf(variant)
        padX == Nullish(cutout, "x", Half(screenW - Nullish(cutout, "width", 0))) - padding
    IN /\ IF padX <= 0
          THEN p[2].op = "M" /\ p[2] = M(left, baseY + r)
          ELSE p[2] = L(left - r, baseY) /\ left - r >= 0
       /\ EndOf(p[n - 1]) = <<right + r, baseY>>
       /\ p[n] = L(screenW, baseY)
       /\ right + r <= screenW

\* C30: on builds part_003 and part_004, every y coordinate of the pathD of
\* a bar-family result (type none or notch) lies in 0 .. svgHeight.
C30_BarInsideCanvas ==
  (variant \in {"part_003", "part_004"} /\ Returned /\ cutout.type \in {"none", "notch"}) =>
    \A pt \in PathPoints(spec.pathD) : 0 <= pt[2] /\ pt[2] <= spec.svgHeight

\* ------------------------------------------------ claims on the canvas
\* C23: on builds part_003 and part_004, every PathSpec has svgLeft >= 0
\* and svgTop >= 0.
C23_CanvasOffsetsNonNegative ==
  (variant \in {"part_003", "part_004"} /\ Returned) =>
    spec.svgLeft >= 0 /\ spec.svgTop >= 0

MinOf(S) == CHOOSE m \in S : \A k \in S : m <= k
MaxOf(S) == CHOOSE m \in S : \A k \in S : m >= k

\* the bounding box of an orbit path: of a circle its centre +- |r| both
\* ways, of a rounded rectangle the box of its points
BoundingBox(path) ==
  IF OpsOf(path) = CircleOps
  THEN LET r == Abs(path[2].args[1])
           cx == Half(path[1].args[1] + path[2].args[6])
           cy == path[1].args[2]
       IN [x0 |-> cx - r, x1 |-> cx + r, y0 |-> cy - r, y1 |-> cy + r]
  ELSE LET xs == { pt[1] : pt \in PathPoints(path) }
           ys == { pt[2] : pt \in PathPoints(path) }
       IN [x0 |-> MinOf(xs), x1 |-> MaxOf(xs), y0 |-> MinOf(ys), y1 |-> MaxOf(ys)]

\* C24: on builds part_003 and part_002, for every island cutout and
\* padding p, the bounding box of pathD moved by (svgLeft, svgTop) is
\* [x - p, x + width + p] x [y - p, y + height + p].
C24_IslandLocalFrame ==
  (variant \in {"part_003", "part_002"} /\ Returned /\ cutout.type = "island"
     /\ {"x", "y", "width", "height"} \subseteq DOMAIN cutout) =>
    LET b == BoundingBox(spec.pathD)
    IN /\ b.x0 + spec.svgLeft = cutout.x - padding
       /\ b.x1 + spec.svgLeft = cutout.x + cutout.width + padding
       /\ b.y0 + spec.svgTop = cutout.y - padding
       /\ b.y1 + spec.svgTop = cutout.y + cutout.height + padding

\* --------------------------------------------------- claims on the stroke
\* what the renderer lights: the unit cell [s, s+1) of the path is lit when
\* the pattern, repeated with period on + off and entered at the offset,
\* is in its 'on' part there
Lit(pattern, offset, perimeter) ==
  { s \in 0 .. perimeter - 1 :
      (s + offset) % (pattern[1] + pattern[2]) < pattern[1] }

\* C17: in every view, at every progress t the dash offset is -perimeter*t
\* and the visible dash is beamLength*perimeter long, and at t = 1 the lit
\* part of the path is the one lit at t = 0.
C17_SeamlessLoop ==
  LET pattern == StrokePattern(renderer, pathLen, beam)
      offset == StrokeOffset(renderer, pathLen, progress)
  IN /\ offset * TSteps = 0 - pathLen * progress
     /\ pattern[1] * TSteps = beam * pathLen
     /\ progress = TSteps =>
          Lit(pattern, offset, pathLen) = Lit(pattern, 0, pathLen)


\* ------------------------------------------- claims on the hook and the view
\* C18: every run of useCutoutDetection with a non-null override returns
\* cutout = override and isDetecting = false, on the first render and on
\* every render after override changed to another non-null value.
C18_OverrideReturned ==
  (returned.rendered /\ returned.override # NullObj) =>
    /\ returned.cutout = returned.override
    /\ ~returned.isDetecting

\* C19: during one mount getCutouts() is called at most once, whatever
\* re-renders, isLoading toggles and override changes happen.
C19_DetectAtMostOnce == Len(promises) <= 1

\* C20: during one mount of EdgeLoaderView onDetected is invoked no more
\* than once, whatever re-renders and prop changes happen.
C20_OnDetectedOnce == notified <= 1

\* the getCutouts() call i settles in this step
Settles(i) ==
  /\ i <= Len(promises')
  /\ promises[i].state = "pending"
  /\ promises'[i].state # "pending"

\* C25: a getCutouts() promise that settles after its effect was cleaned up
\* (the component unmounted, or the effect ran again for another override)
\* changes neither cutout nor isDetecting
C25_StaleSettlementIgnored ==
  [][ \A i \in 1 .. Len(promises) :
        (Settles(i) /\ (~mounted \/ live # i)) =>
          (cutoutState' = cutoutState /\ isDetecting' = isDetecting) ]_vars

\* a call settled after the unmount: the hook state is still the initial one
C25_Witness ==
  \E i \in 1 .. Len(promises) :
    /\ promises[i].state # "pending"
    /\ promises[i].cancelled
    /\ cutoutState = NullObj
    /\ isDetecting

\* C27: when the getCutouts() promise of the current effect run rejects, the
\* hook state becomes cutout = { type: 'none' }, isDetecting = false
C27_RejectionFallsBack ==
  [][ \A i \in 1 .. Len(promises) :
        (Settles(i) /\ promises'[i].state = "rejected" /\ mounted /\ live = i) =>
          (cutoutState'.value = [type |-> "none"] /\ ~isDetecting') ]_vars

C27_Witness ==
  \E i \in 1 .. Len(promises) :
    /\ promises[i].state = "rejected"
    /\ cutoutState = Fallback(i)
    /\ ~isDetecting

\* C26: with no override, the component staying mounted and the promise
\* settling, isDetecting eventually becomes false and stays false, with a
\* non-null cutout
C26_DetectionEnds == <>[](~isDetecting /\ cutoutState # NullObj)

C26_Witness ==
  /\ mounted /\ override = NullObj
  /\ \E i \in 1 .. Len(promises) : promises[i].state # "pending" /\ live = i
  /\ ~isDetecting
  /\ cutoutState # NullObj
  /\ returned.rendered /\ ~returned.isDetecting

\* the cases in which there is no cutout to report
NoCutoutFound ==
  \/ platformOS \notin {"android", "ios"}
  \/ native.kind \in {"unlinked", "rejected", "resolvedNull"}
  \/ platformOS = "android" /\ native.cutouts = << >>
  \/ platformOS = "ios" /\ native.modelId \notin DOMAIN IPHONE_DB

\* C28: getCutouts() never rejects; when the native call throws or rejects,
\* returns no cutouts or an unknown model, it resolves to { type: 'none' };
\* every other result carries x, y, width and height
C28_GetCutoutsNeverRejects ==
  detected # Idle =>
    /\ detected.state = "resolved"
    /\ NoCutoutFound => detected.value = [type |-> "none"]
    /\ detected.value.type # "none" =>
         {"x", "y", "width", "height"} \subseteq DOMAIN detected.value

C28_Witness ==
  /\ detected = Resolved([type |-> "none"])
  /\ platformOS \in {"android", "ios"}
  /\ native.kind = "rejected"

\* the values the latest render saw are hidden ones
HiddenRender == Hidden(returned.isLoading, returned.isDetecting, returned.cutout)

\* the latest run of the animation effect saw isLoading, not isDetecting and
\* a non-null cutout
EffectSawVisible ==
  /\ animDeps # << >>
  /\ ~Hidden(animDeps[1], animDeps[2], animDeps[3])

====
